---------------------------- MODULE Spec2Model ----------------------------
(***************************************************************************)
(* Sampling-bias-corrected two-tower training (src/embedding/google_tt/    *)
(* train.py): the streaming sampling-probability estimator, the modulo     *)
(* hash, the reward weighting, the top-k metrics and the epoch loop of     *)
(* train_model.                                                            *)
(*                                                                         *)
(* Floating-point values are modelled as exact rationals [num, den] in     *)
(* lowest terms; den = 0 stands for the non-finite results of a float      *)
(* division by zero (num = 1: +inf, num = -1: -inf, num = 0: NaN).         *)
(* Tensors and arrays indexed from 0 in the source are sequences indexed   *)
(* from 1 here, except the bucket arrays, which keep the bucket numbers    *)
(* 0 .. hash_bucket_size-1 that hash_simple produces.                      *)
(***************************************************************************)
EXTENDS Integers, Sequences, FiniteSets, TLC

VARIABLES
    \* ---- a single call of one of the module's functions
    fn,        \* name of the function being called ("none": no call)
    args,      \* the arguments of the call
    returned,  \* whether the call has returned
    ret,       \* what the call returned, or that it raised
    \* ---- train_model: parameters
    epochs, streaming, alpha, beta, ids_hash_bucket_size, steps,
    tensorboard_dir,
    dataset,              \* the batches the dataset yields on every pass
    \* ---- train_model: locals
    pc,                   \* position of the orchestrating thread
    epoch,                \* iterations of range(epochs) completed
    step,
    array_a, array_b,     \* bucket state (empty while unallocated)
    batch_no,             \* batches the dataset iterator has yielded
    inputs,               \* the batch being processed
    sampling_p,
    loss_value,           \* loss the train step computed for this batch
    total_loss,
    left_model, right_model,   \* gradient applications received so far
    epoch_recall_avg, epoch_positive_avg,
    loss_results, recall_results, positive_results,
    batch_log,            \* figures of the last log line printed every 50 steps
    epoch_log,            \* figures of the last log line printed at an epoch's end
    summary,              \* scalars written to the tensorboard summary writer
    left_ckpts, right_ckpts,   \* 1-based epoch numbers saved per tower
    \* ---- the distributed train step (strategy.run)
    replica_pc,           \* position of every replica inside train_step
    replica_loss,         \* loss every replica's train_step returned
    bucket_access         \* threads that have read or written array_a, array_b

---------------------------------------------------------------------------
(* Exact rational arithmetic standing for float arithmetic.                *)

Abs(x) == IF x < 0 THEN -x ELSE x

Sign(x) == IF x < 0 THEN -1 ELSE IF x = 0 THEN 0 ELSE 1

RECURSIVE GCD(_, _)
GCD(x, y) == IF y = 0 THEN x ELSE GCD(y, x % y)

\* n/d in lowest terms with a positive denominator; d = 0 gives inf or NaN.
Rat(n, d) ==
    IF d = 0 THEN [num |-> Sign(n), den |-> 0]
    ELSE LET g == GCD(Abs(n), Abs(d))
             s == Sign(d)
         IN  [num |-> s * (n \div g), den |-> s * (d \div g)]

RInt(i) == [num |-> i, den |-> 1]

RIsFinite(x) == x.den # 0

RMul(x, y) ==
    LET g1 == GCD(Abs(x.num), y.den)
        g2 == GCD(Abs(y.num), x.den)
    IN  IF x.den = 0 \/ y.den = 0
        THEN [num |-> Sign(x.num) * Sign(y.num), den |-> 0]
        ELSE Rat((x.num \div g1) * (y.num \div g2),
                 (x.den \div g2) * (y.den \div g1))

RAdd(x, y) ==
    IF x.den = 0 \/ y.den = 0
    THEN (IF x.den = 0 /\ y.den = 0 /\ x.num # y.num
          THEN [num |-> 0, den |-> 0]
          ELSE IF x.den = 0 THEN x ELSE y)
    ELSE LET g == GCD(x.den, y.den)
             l == (x.den \div g) * y.den
         IN  Rat(x.num * (l \div x.den) + y.num * (l \div y.den), l)

RNeg(x) == [num |-> -x.num, den |-> x.den]

RSub(x, y) == RAdd(x, RNeg(y))

\* float division: x / 0 is +-inf, 0 / 0 is NaN
RDiv(x, y) ==
    IF y.den = 0
    THEN (IF x.den = 0 THEN [num |-> 0, den |-> 0] ELSE [num |-> 0, den |-> 1])
    ELSE IF y.num = 0 THEN [num |-> Sign(x.num), den |-> 0]
    ELSE RMul(x, Rat(y.den, y.num))

Range(s) == {s[i] : i \in DOMAIN s}

---------------------------------------------------------------------------
(* Bounds of the checked instances.                                        *)

MaxHi == 2            \* ids range over hi * 2^31 + lo with hi in 0 .. MaxHi
MaxBucketCount == 3   \* hash_bucket_size ranges over 1 .. MaxBucketCount
MaxIdsLen == 2        \* length of the ids tensor given to hash_simple alone
MaxTokens == 6        \* label tokens of one csv record: 4 .. MaxTokens
MaxN == 4             \* batch length of the metric functions called alone
MaxScore == 2         \* output scores range over 0 .. MaxScore
MaxK == 5             \* k ranges over 1 .. MaxK
MaxEpochs == 3        \* epochs ranges over 0 .. MaxEpochs
MaxBatches == 2       \* the dataset holds 0 .. MaxBatches batches
MaxBuckets == 2       \* ids_hash_bucket_size ranges over 1 .. MaxBuckets
MaxReplicas == 2

---------------------------------------------------------------------------
(* hash_simple                                                             *)

Int32Max == 2147483647

\* An integer tensor element: the value hi * 2^31 + lo with 0 <= lo < 2^31,
\* of dtype int32 (hi = 0) or int64.
LoValues == {0, 1, 2, 5, Int32Max - 1, Int32Max}

IdValues ==
    [dtype : {"int32"}, hi : {0}, lo : LoValues]
        \cup [dtype : {"int64"}, hi : 0 .. MaxHi, lo : LoValues]

\* tf.cast(ids, dtype=tf.int32): keeps the low 32 bits, read as signed
cast_int32(x) == IF x.hi % 2 = 0 THEN x.lo ELSE (x.lo - Int32Max) - 1

\* tf.math.mod is the floor modulo: for a positive divisor it is TLA+'s %
hash_simple(ids, hash_bucket_size) ==
    [i \in DOMAIN ids |->
        (IF ids[i].dtype # "int32" THEN cast_int32(ids[i]) ELSE ids[i].lo)
            % hash_bucket_size]

---------------------------------------------------------------------------
(* parse_csv_line: the reward of one record                                *)

\* the weights with those of like and share exchanged
REWARD_WEIGHTS_exchanged == <<5, 1, 2, 2, 0>>

\* tf.constant([0.5, 0.2, 0.1, 0.2, 0.]), in tenths:
\* click, like, share, favorite, comment
REWARD_WEIGHTS == <<5, 2, 1, 2, 0>>

\* _parse_multi_hot with duplicate=False on the tokens of the split string:
\* pad with '' up to max_length, then cut to max_length
parse_multi_hot(vals, max_length) ==
    LET padded == IF Len(vals) < max_length
                  THEN vals \o [i \in 1 .. (max_length - Len(vals)) |-> ""]
                  ELSE vals
    IN  IF Len(padded) > max_length THEN SubSeq(padded, 1, max_length) ELSE padded

\* tf.strings.to_number accepts a numeral and fails on anything else
to_number_ok(tok) == tok \in {"0", "1"}

to_number(tok) == IF tok = "1" THEN 1 ELSE 0

RECURSIVE SumTo(_, _)
SumTo(f, n) == IF n = 0 THEN 0 ELSE f[n] + SumTo(f, n - 1)

\* lines 72-78: labels -> reduce_sum(to_number(labels) * weights)
weight_labels(label_tokens) ==
    LET labels == parse_multi_hot(label_tokens, 5)
    IN  IF \E i \in 1 .. 5 : ~to_number_ok(labels[i])
        THEN [raised |-> TRUE, value |-> RInt(0)]
        ELSE [raised |-> FALSE,
              value |-> Rat(SumTo([i \in 1 .. 5 |->
                                      to_number(labels[i]) * REWARD_WEIGHTS[i]], 5),
                            10)]

---------------------------------------------------------------------------
(* topk_recall, topk_positive                                              *)

\* tf.math.top_k: the indices of the k largest entries, largest first, the
\* lower index first among equal entries; it fails when k exceeds the length.
RECURSIVE top_k_from(_, _, _)
top_k_from(output, k, taken) ==
    IF k = 0 THEN <<>>
    ELSE LET rest == DOMAIN output \ taken
             best == CHOOSE i \in rest :
                        \A j \in rest :
                            \/ output[i] > output[j]
                            \/ output[i] = output[j] /\ i <= j
         IN  <<best>> \o top_k_from(output, k - 1, taken \cup {best})

\* top_k returning the k smallest entries instead of the k largest
RECURSIVE bottom_k_from(_, _, _)
bottom_k_from(output, k, taken) ==
    IF k = 0 THEN <<>>
    ELSE LET rest == DOMAIN output \ taken
             best == CHOOSE i \in rest :
                        \A j \in rest :
                            \/ output[i] < output[j]
                            \/ output[i] = output[j] /\ i <= j
         IN  <<best>> \o bottom_k_from(output, k - 1, taken \cup {best})

top_k_smallest(output, k) ==
    IF k > Len(output)
    THEN [raised |-> TRUE, indices |-> <<>>]
    ELSE [raised |-> FALSE, indices |-> bottom_k_from(output, k, {})]

top_k(output, k) ==
    IF k > Len(output)
    THEN [raised |-> TRUE, indices |-> <<>>]
    ELSE [raised |-> FALSE, indices |-> top_k_from(output, k, {})]

gather(params, indices) == [i \in DOMAIN indices |-> params[indices[i]]]

count_nonzero(t) == Cardinality({i \in DOMAIN t : t[i].num # 0})

topk_recall(output, reward, k) ==
    LET top == top_k(output, k)
    IN  IF top.raised
        THEN [raised |-> TRUE, branch |-> "none", value |-> RInt(0)]
        ELSE IF count_nonzero(reward) > 0
        THEN [raised |-> FALSE, branch |-> "_ture",
              value |-> RDiv(RInt(count_nonzero(gather(reward, top.indices))),
                             RInt(count_nonzero(reward)))]
        ELSE [raised |-> FALSE, branch |-> "_false", value |-> RInt(0)]

\* topk_positive dividing by the batch length instead of k
topk_positive_over_batch(output, reward, k) ==
    LET top == top_k(output, k)
    IN  IF top.raised
        THEN [raised |-> TRUE, branch |-> "none", value |-> RInt(0)]
        ELSE IF count_nonzero(reward) > 0
        THEN [raised |-> FALSE, branch |-> "_ture",
              value |-> RDiv(RInt(count_nonzero(gather(reward, top.indices))),
                             RInt(Len(output)))]
        ELSE [raised |-> FALSE, branch |-> "_false", value |-> RInt(0)]

topk_positive(output, reward, k) ==
    LET top == top_k(output, k)
    IN  IF top.raised
        THEN [raised |-> TRUE, branch |-> "none", value |-> RInt(0)]
        ELSE IF count_nonzero(reward) > 0
        THEN [raised |-> FALSE, branch |-> "_ture",
              value |-> RDiv(RInt(count_nonzero(gather(reward, top.indices))),
                             RInt(k))]
        ELSE [raised |-> FALSE, branch |-> "_false", value |-> RInt(0)]

---------------------------------------------------------------------------
(* sampling_p_estimation_single_hash                                       *)

\* alpha=0.01, the default of the estimator's parameter
ALPHA_DEFAULT == Rat(1, 100)

\* the estimator with the gap of line 119 taken the wrong way round
estimation_gap_reversed(a, b, hash_indexs, global_step, alpha_) ==
    LET touched == Range(hash_indexs)
        new_b == [i \in DOMAIN b |->
                    IF i \in touched
                    THEN RAdd(RMul(RSub(RInt(1), alpha_), b[i]),
                              RMul(alpha_, RSub(a[i], RInt(global_step))))
                    ELSE b[i]]
        new_a == [i \in DOMAIN a |->
                    IF i \in touched THEN RInt(global_step) ELSE a[i]]
    IN  [array_a |-> new_a,
         array_b |-> new_b,
         sampling_p |-> [j \in DOMAIN hash_indexs |->
                            RDiv(RInt(1), new_b[hash_indexs[j]])]]

\* the estimator with line 120 run before line 118: the gap is read from
\* the array_a already overwritten
estimation_a_written_first(a, b, hash_indexs, global_step, alpha_) ==
    LET touched == Range(hash_indexs)
        new_a == [i \in DOMAIN a |->
                    IF i \in touched THEN RInt(global_step) ELSE a[i]]
        new_b == [i \in DOMAIN b |->
                    IF i \in touched
                    THEN RAdd(RMul(RSub(RInt(1), alpha_), b[i]),
                              RMul(alpha_, RSub(RInt(global_step), new_a[i])))
                    ELSE b[i]]
    IN  [array_a |-> new_a,
         array_b |-> new_b,
         sampling_p |-> [j \in DOMAIN hash_indexs |->
                            RDiv(RInt(1), new_b[hash_indexs[j]])]]

\* the estimator with line 121 reading array_b as it was before line 118
estimation_stale_inverse(a, b, hash_indexs, global_step, alpha_) ==
    LET touched == Range(hash_indexs)
        new_b == [i \in DOMAIN b |->
                    IF i \in touched
                    THEN RAdd(RMul(RSub(RInt(1), alpha_), b[i]),
                              RMul(alpha_, RSub(RInt(global_step), a[i])))
                    ELSE b[i]]
        new_a == [i \in DOMAIN a |->
                    IF i \in touched THEN RInt(global_step) ELSE a[i]]
    IN  [array_a |-> new_a,
         array_b |-> new_b,
         sampling_p |-> [j \in DOMAIN hash_indexs |->
                            RDiv(RInt(1), b[hash_indexs[j]])]]

\* arr[idx] = vals of numpy: one write per position of idx, in order, so
\* the last write to a repeated index is the one that stays
RECURSIVE fancy_assign(_, _, _, _)
fancy_assign(arr, idx, vals, n) ==
    IF n = 0 THEN arr
    ELSE [fancy_assign(arr, idx, vals, n - 1) EXCEPT ![idx[n]] = vals[n]]

\* the estimator stamping the step on every bucket, touched or not
estimation_all_stamped(a, b, hash_indexs, global_step, alpha_) ==
    LET n == Len(hash_indexs)
        rhs == [j \in 1 .. n |->
                   RAdd(RMul(RSub(RInt(1), alpha_), b[hash_indexs[j]]),
                        RMul(alpha_,
                             RSub(RInt(global_step), a[hash_indexs[j]])))]
        new_b == fancy_assign(b, hash_indexs, rhs, n)
    IN  [array_a |-> [i \in DOMAIN a |-> RInt(global_step)],
         array_b |-> new_b,
         sampling_p |-> [j \in 1 .. n |-> RDiv(RInt(1), new_b[hash_indexs[j]])]]

\* the estimator reading, for a repeated index, the array_a entry its
\* earlier occurrence has already overwritten
estimation_stamp_seen_by_repeats(a, b, hash_indexs, global_step, alpha_) ==
    LET n == Len(hash_indexs)
        seen(j) == \E h \in 1 .. (j - 1) : hash_indexs[h] = hash_indexs[j]
        rhs == [j \in 1 .. n |->
                   RAdd(RMul(RSub(RInt(1), alpha_), b[hash_indexs[j]]),
                        RMul(alpha_,
                             RSub(RInt(global_step),
                                  IF seen(j) THEN RInt(global_step)
                                  ELSE a[hash_indexs[j]])))]
        new_b == fancy_assign(b, hash_indexs, rhs, n)
        new_a == fancy_assign(a, hash_indexs, [j \in 1 .. n |-> RInt(global_step)], n)
    IN  [array_a |-> new_a,
         array_b |-> new_b,
         sampling_p |-> [j \in 1 .. n |-> RDiv(RInt(1), new_b[hash_indexs[j]])]]

\* lines 116-122: the right-hand side of line 118 is computed from the
\* arrays as the call received them, one value per position of hash_indexs,
\* then written; line 120 stamps the step; line 121 reads the new array_b
sampling_p_estimation_single_hash(a, b, hash_indexs, global_step, alpha_) ==
    LET n == Len(hash_indexs)
        rhs == [j \in 1 .. n |->
                   RAdd(RMul(RSub(RInt(1), alpha_), b[hash_indexs[j]]),
                        RMul(alpha_,
                             RSub(RInt(global_step), a[hash_indexs[j]])))]
        new_b == fancy_assign(b, hash_indexs, rhs, n)
        new_a == fancy_assign(a, hash_indexs, [j \in 1 .. n |-> RInt(global_step)], n)
    IN  [array_a |-> new_a,
         array_b |-> new_b,
         sampling_p |-> [j \in 1 .. n |-> RDiv(RInt(1), new_b[hash_indexs[j]])]]

---------------------------------------------------------------------------
(* train_model: parameters and inputs                                      *)

\* k=10, the default of topk_recall and topk_positive used by train_step
TOPK_DEFAULT == 10

\* alpha in (0, 1]; train_model itself always passes the default
Alphas == {ALPHA_DEFAULT, RInt(1)}

\* beta > 0; 100 is train_model's default
Betas == {Rat(1, 2), RInt(100)}

\* inputs[1].get(ids_column): the candidate ids c, c+1, ... repeating
CandIds(c, spread, n) ==
    [i \in 1 .. n |-> [dtype |-> "int32", hi |-> 0, lo |-> c + ((i - 1) % spread)]]

\* the label tokens of the batch's records: no engagement at all, or a
\* click and a like on the first two records and a comment on the others
LabelTokens(kind, n) ==
    [i \in 1 .. n |->
        IF kind = "none" THEN <<"0", "0", "0", "0", "0">>
        ELSE IF i <= 2 THEN <<"1", "1", "0", "0", "0">>
        ELSE <<"0", "0", "0", "0", "1">>]

\* a batch of the dataset: parse_csv_line's right features and reward per record
Batch(c, spread, n, kind) ==
    [ids |-> CandIds(c, spread, n),
     reward |-> [i \in 1 .. n |-> weight_labels(LabelTokens(kind, n)[i]).value]]

\* the batches a dataset is made of, each named by the <<c, spread, n, kind>>
\* it is built from: two batches longer than k, one of a single candidate
\* with engagement and one of two candidates without, and one batch shorter
\* than k
BatchPool ==
    {<<0, 1, TOPK_DEFAULT + 1, "some">>,
     <<1, 2, TOPK_DEFAULT + 1, "none">>,
     <<0, 1, TOPK_DEFAULT - 1, "some">>}

\* the dataset: the same batches on every pass (dataset.cache(), line 106)
Datasets == UNION {[1 .. n -> BatchPool] : n \in 0 .. MaxBatches}

\* scores the two towers give a batch of n records: rising or falling
Outputs(n) == {[i \in 1 .. n |-> i], [i \in 1 .. n |-> n + 1 - i]}

\* lines 146-148: -mean(reward * log(output)) of softmax outputs is 0 when
\* every reward is 0 and positive otherwise
LossValues(reward) == IF count_nonzero(reward) = 0 THEN {RInt(0)} ELSE {RInt(1)}

NoBatch == [ids |-> <<>>, reward |-> <<>>]

\* sampling_p = None
None == [is_none |-> TRUE, p |-> <<>>]

\* tf.keras.metrics.Mean
MeanNew == [total |-> RInt(0), count |-> 0]

MeanUpdate(m, v) == [total |-> RAdd(m.total, v), count |-> m.count + 1]

MeanResult(m) == IF m.count = 0 THEN RInt(0) ELSE RDiv(m.total, RInt(m.count))

\* line 281: a log line every 50 steps
LOG_EVERY == 50

\* tensorboard_dir=None
NoDir == "None"

\* no log line printed yet
NoLog == [printed |-> FALSE, at |-> 0, loss |-> RInt(0), recall |-> RInt(0),
          positive |-> RInt(0)]

\* the figures of one log line or of one group of summary scalars
Figures(at, loss, recall_avg, positive_avg) ==
    [printed |-> TRUE, at |-> at, loss |-> loss,
     recall |-> MeanResult(recall_avg), positive |-> MeanResult(positive_avg)]

---------------------------------------------------------------------------
(* State                                                                   *)

fnVars == <<fn, args, returned, ret>>

paramVars == <<epochs, streaming, alpha, beta, ids_hash_bucket_size, steps,
               tensorboard_dir, dataset>>

bucketVars == <<array_a, array_b, bucket_access>>

replicaVars == <<replica_pc, replica_loss>>

metricVars == <<epoch_recall_avg, epoch_positive_avg>>

logVars == <<batch_log, epoch_log, summary>>

resultVars == <<loss_results, recall_results, positive_results, logVars>>

ckptVars == <<left_ckpts, right_ckpts>>

modelVars == <<left_model, right_model>>

trainVars == <<paramVars, replicaVars, pc, epoch, step, bucketVars, batch_no, inputs,
               sampling_p, loss_value, total_loss, modelVars, metricVars,
               resultVars, ckptVars>>

vars == <<fnVars, trainVars>>

\* no function is being called
FnIdle == fn = "none" /\ args = <<>> /\ returned = FALSE /\ ret = <<>>

\* lines 190-246: the state train_model builds before its epoch loop
TrainStart ==
    /\ pc = "EpochStart"
    /\ epoch = 0
    /\ step = 0
    /\ array_a = <<>>
    /\ array_b = <<>>
    /\ bucket_access = {}
    /\ batch_no = 0
    /\ inputs = NoBatch
    /\ sampling_p = None
    /\ loss_value = RInt(0)
    /\ total_loss = RInt(0)
    /\ left_model = 0
    /\ right_model = 0
    /\ epoch_recall_avg = MeanNew
    /\ epoch_positive_avg = MeanNew
    /\ loss_results = <<>>
    /\ recall_results = <<>>
    /\ positive_results = <<>>
    /\ batch_log = NoLog
    /\ epoch_log = NoLog
    /\ summary = <<>>
    /\ left_ckpts = <<>>
    /\ right_ckpts = <<>>

\* the train step runs on the orchestrating thread itself
NoReplicas == replica_pc = <<>> /\ replica_loss = <<>>

\* train_model's parameters; the estimator's parameters matter only when
\* streaming, so the other mode keeps the defaults, and steps, which only
\* divides the recorded loss, varies in the other mode
Init ==
    /\ FnIdle
    /\ NoReplicas
    /\ epochs \in 0 .. MaxEpochs
    /\ streaming \in BOOLEAN
    /\ alpha \in (IF streaming THEN Alphas ELSE {ALPHA_DEFAULT})
    /\ beta \in (IF streaming THEN Betas ELSE {RInt(100)})
    /\ ids_hash_bucket_size \in (IF streaming THEN 1 .. MaxBuckets ELSE {1})
    /\ dataset \in Datasets
    /\ steps \in (IF streaming THEN {1} ELSE {1, Len(dataset)} \ {0})
    /\ tensorboard_dir \in (IF streaming THEN {"logs"} ELSE {NoDir, "logs"})
    /\ TrainStart

---------------------------------------------------------------------------
(* train_model: the epoch loop, lines 247-325                              *)

\* EpochStart allocating the bucket state in the first epoch only
EpochStart_allocated_once ==
    /\ pc = "EpochStart"
    /\ epoch < epochs
    /\ IF streaming /\ epoch = 0
       THEN /\ array_a' = [i \in 0 .. (ids_hash_bucket_size - 1) |-> RInt(0)]
            /\ array_b' = [i \in 0 .. (ids_hash_bucket_size - 1) |-> beta]
            /\ bucket_access' = bucket_access \cup {"orchestrator"}
       ELSE UNCHANGED bucketVars
    /\ total_loss' = RInt(0)
    /\ step' = 1
    /\ batch_no' = 0
    /\ pc' = "BatchLoad"
    /\ UNCHANGED <<fnVars, paramVars, replicaVars, epoch, inputs, sampling_p, loss_value,
                   modelVars, metricVars, resultVars, ckptVars>>

\* EpochStart rejecting a beta that is not positive
EpochStart_validating ==
    /\ pc = "EpochStart"
    /\ epoch < epochs
    /\ IF streaming /\ beta.num <= 0
       THEN /\ pc' = "Raised"
            /\ UNCHANGED <<bucketVars, total_loss, step, batch_no>>
       ELSE /\ IF streaming
               THEN /\ array_a' = [i \in 0 .. (ids_hash_bucket_size - 1) |-> RInt(0)]
                    /\ array_b' = [i \in 0 .. (ids_hash_bucket_size - 1) |-> beta]
                    /\ bucket_access' = bucket_access \cup {"orchestrator"}
               ELSE UNCHANGED bucketVars
            /\ total_loss' = RInt(0)
            /\ step' = 1
            /\ batch_no' = 0
            /\ pc' = "BatchLoad"
    /\ UNCHANGED <<fnVars, paramVars, replicaVars, epoch, inputs, sampling_p, loss_value,
                   modelVars, metricVars, resultVars, ckptVars>>

\* lines 247-258: the head of one epoch iteration
EpochStart ==
    /\ pc = "EpochStart"
    /\ epoch < epochs
    /\ IF streaming
       THEN /\ array_a' = [i \in 0 .. (ids_hash_bucket_size - 1) |-> RInt(0)]
            /\ array_b' = [i \in 0 .. (ids_hash_bucket_size - 1) |-> beta]
            /\ bucket_access' = bucket_access \cup {"orchestrator"}
       ELSE UNCHANGED bucketVars
    /\ total_loss' = RInt(0)
    /\ step' = 1
    /\ batch_no' = 0
    /\ pc' = "BatchLoad"
    /\ UNCHANGED <<fnVars, paramVars, replicaVars, epoch, inputs, sampling_p, loss_value,
                   modelVars, metricVars, resultVars, ckptVars>>

\* line 259: the dataset iterator yields the next batch
BatchLoad ==
    /\ pc = "BatchLoad"
    /\ batch_no < Len(dataset)
    /\ LET d == dataset[batch_no + 1]
       IN  inputs' = Batch(d[1], d[2], d[3], d[4])
    /\ batch_no' = batch_no + 1
    /\ pc' = "StreamingEstimate"
    /\ UNCHANGED <<fnVars, paramVars, replicaVars, epoch, step, bucketVars, sampling_p,
                   loss_value, total_loss, modelVars, metricVars, resultVars,
                   ckptVars>>

\* line 259: the dataset iterator is exhausted, the batch loop ends
BatchesDone ==
    /\ pc = "BatchLoad"
    /\ batch_no = Len(dataset)
    /\ pc' = "EpochEnd"
    /\ UNCHANGED <<fnVars, paramVars, replicaVars, epoch, step, bucketVars, batch_no, inputs,
                   sampling_p, loss_value, total_loss, modelVars, metricVars,
                   resultVars, ckptVars>>

\* StreamingEstimate keeping the sampling_p of the batch before, once it has one
StreamingEstimate_cached ==
    /\ pc = "StreamingEstimate"
    /\ streaming
    /\ LET cand_hash_indexs == hash_simple(inputs.ids, ids_hash_bucket_size)
           est == sampling_p_estimation_single_hash(
                      array_a, array_b, cand_hash_indexs, step, alpha)
       IN  /\ array_a' = est.array_a
           /\ array_b' = est.array_b
           /\ bucket_access' = bucket_access \cup {"orchestrator"}
           /\ sampling_p' = IF sampling_p.is_none
                            THEN [is_none |-> FALSE, p |-> est.sampling_p]
                            ELSE sampling_p
    /\ pc' = "ForwardBackward"
    /\ UNCHANGED <<fnVars, paramVars, replicaVars, epoch, step, batch_no, inputs, loss_value,
                   total_loss, modelVars, metricVars, resultVars, ckptVars>>

\* lines 261-264
StreamingEstimate ==
    /\ pc = "StreamingEstimate"
    /\ streaming
    /\ LET cand_hash_indexs == hash_simple(inputs.ids, ids_hash_bucket_size)
           est == sampling_p_estimation_single_hash(
                      array_a, array_b, cand_hash_indexs, step, alpha)
       IN  /\ array_a' = est.array_a
           /\ array_b' = est.array_b
           /\ bucket_access' = bucket_access \cup {"orchestrator"}
           /\ sampling_p' = [is_none |-> FALSE, p |-> est.sampling_p]
    /\ pc' = "ForwardBackward"
    /\ UNCHANGED <<fnVars, paramVars, replicaVars, epoch, step, batch_no, inputs, loss_value,
                   total_loss, modelVars, metricVars, resultVars, ckptVars>>

\* lines 265-266
UniformSampling ==
    /\ pc = "StreamingEstimate"
    /\ ~streaming
    /\ sampling_p' = None
    /\ pc' = "ForwardBackward"
    /\ UNCHANGED <<fnVars, paramVars, replicaVars, epoch, step, bucketVars, batch_no, inputs,
                   loss_value, total_loss, modelVars, metricVars, resultVars,
                   ckptVars>>

\* lines 224-225: grad computes the loss and both towers' gradients
ForwardBackward ==
    /\ pc = "ForwardBackward"
    /\ \E l \in LossValues(inputs.reward) : loss_value' = l
    /\ pc' = "ApplyLeft"
    /\ UNCHANGED <<fnVars, paramVars, replicaVars, epoch, step, bucketVars, batch_no, inputs,
                   sampling_p, total_loss, modelVars, metricVars, resultVars,
                   ckptVars>>

\* ApplyLeft applying the right tower's gradients first
ApplyLeft_right_tower_first ==
    /\ pc = "ApplyLeft"
    /\ right_model' = right_model + 1
    /\ pc' = "ApplyRight"
    /\ UNCHANGED <<fnVars, paramVars, replicaVars, epoch, step, bucketVars, batch_no, inputs,
                   sampling_p, loss_value, total_loss, left_model, metricVars,
                   resultVars, ckptVars>>

\* line 226
ApplyLeft ==
    /\ pc = "ApplyLeft"
    /\ left_model' = left_model + 1
    /\ pc' = "ApplyRight"
    /\ UNCHANGED <<fnVars, paramVars, replicaVars, epoch, step, bucketVars, batch_no, inputs,
                   sampling_p, loss_value, total_loss, right_model, metricVars,
                   resultVars, ckptVars>>

\* line 227
ApplyRight ==
    /\ pc = "ApplyRight"
    /\ right_model' = right_model + 1
    /\ pc' = "MetricUpdate"
    /\ UNCHANGED <<fnVars, paramVars, replicaVars, epoch, step, bucketVars, batch_no, inputs,
                   sampling_p, loss_value, total_loss, left_model, metricVars,
                   resultVars, ckptVars>>

\* lines 229-230: a fresh forward pass scores the batch for the two metrics
MetricUpdate ==
    /\ pc = "MetricUpdate"
    /\ \E output \in Outputs(Len(inputs.reward)) :
          LET recall == topk_recall(output, inputs.reward, TOPK_DEFAULT)
              positive == topk_positive(output, inputs.reward, TOPK_DEFAULT)
          IN  IF recall.raised \/ positive.raised
              THEN /\ pc' = "Raised"
                   /\ UNCHANGED metricVars
              ELSE /\ epoch_recall_avg' = MeanUpdate(epoch_recall_avg, recall.value)
                   /\ epoch_positive_avg' =
                          MeanUpdate(epoch_positive_avg, positive.value)
                   /\ pc' = "BatchEnd"
    /\ UNCHANGED <<fnVars, paramVars, replicaVars, epoch, step, bucketVars, batch_no, inputs,
                   sampling_p, loss_value, total_loss, modelVars, resultVars,
                   ckptVars>>

\* BatchEnd leaving the step counter where it is
BatchEnd_step_kept ==
    /\ pc = "BatchEnd"
    /\ total_loss' = RAdd(total_loss, loss_value)
    /\ batch_log' = IF step % LOG_EVERY = 0
                    THEN Figures(step, RDiv(total_loss', RInt(step)),
                                 epoch_recall_avg, epoch_positive_avg)
                    ELSE batch_log
    /\ step' = step
    /\ pc' = "BatchLoad"
    /\ UNCHANGED <<fnVars, paramVars, replicaVars, epoch, bucketVars, batch_no, inputs,
                   sampling_p, loss_value, modelVars, metricVars, loss_results,
                   recall_results, positive_results, epoch_log, summary,
                   ckptVars>>

\* lines 269-297: the loss is accumulated, every 50 steps a log line is
\* printed, and the step counter advances (the timers are left out)
BatchEnd ==
    /\ pc = "BatchEnd"
    /\ total_loss' = RAdd(total_loss, loss_value)
    /\ batch_log' = IF step % LOG_EVERY = 0
                    THEN Figures(step, RDiv(total_loss', RInt(step)),
                                 epoch_recall_avg, epoch_positive_avg)
                    ELSE batch_log
    /\ step' = step + 1
    /\ pc' = "BatchLoad"
    /\ UNCHANGED <<fnVars, paramVars, replicaVars, epoch, bucketVars, batch_no, inputs,
                   sampling_p, loss_value, modelVars, metricVars, loss_results,
                   recall_results, positive_results, epoch_log, summary,
                   ckptVars>>

\* EpochEnd testing the parity of the 0-based epoch, epoch % 2, at line 316
EpochEnd_zero_based_parity ==
    /\ pc = "EpochEnd"
    /\ loss_results' = Append(loss_results, RDiv(total_loss, RInt(steps)))
    /\ recall_results' = Append(recall_results, MeanResult(epoch_recall_avg))
    /\ positive_results' = Append(positive_results, MeanResult(epoch_positive_avg))
    /\ epoch_log' = Figures(epoch + 1, RDiv(total_loss, RInt(step)),
                             epoch_recall_avg, epoch_positive_avg)
    /\ summary' = IF tensorboard_dir # NoDir
                  THEN Append(summary,
                              Figures(epoch, RDiv(total_loss, RInt(steps)),
                                      epoch_recall_avg, epoch_positive_avg))
                  ELSE summary
    /\ pc' = IF epoch % 2 = 0 THEN "SaveLeft" ELSE "ResetMetrics"
    /\ UNCHANGED <<fnVars, paramVars, replicaVars, epoch, step, bucketVars, batch_no, inputs,
                   sampling_p, loss_value, total_loss, modelVars, metricVars,
                   batch_log, ckptVars>>

\* lines 301-316: the epoch's results are recorded
EpochEnd ==
    /\ pc = "EpochEnd"
    /\ loss_results' = Append(loss_results, RDiv(total_loss, RInt(steps)))
    /\ recall_results' = Append(recall_results, MeanResult(epoch_recall_avg))
    /\ positive_results' = Append(positive_results, MeanResult(epoch_positive_avg))
    /\ epoch_log' = Figures(epoch + 1, RDiv(total_loss, RInt(step)),
                             epoch_recall_avg, epoch_positive_avg)
    /\ summary' = IF tensorboard_dir # NoDir
                  THEN Append(summary,
                              Figures(epoch, RDiv(total_loss, RInt(steps)),
                                      epoch_recall_avg, epoch_positive_avg))
                  ELSE summary
    /\ pc' = IF (epoch + 1) % 2 = 0 THEN "SaveLeft" ELSE "ResetMetrics"
    /\ UNCHANGED <<fnVars, paramVars, replicaVars, epoch, step, bucketVars, batch_no, inputs,
                   sampling_p, loss_value, total_loss, modelVars, metricVars,
                   batch_log, ckptVars>>

\* line 317
SaveLeft ==
    /\ pc = "SaveLeft"
    /\ left_ckpts' = Append(left_ckpts, epoch + 1)
    /\ pc' = "SaveRight"
    /\ UNCHANGED <<fnVars, paramVars, replicaVars, epoch, step, bucketVars, batch_no, inputs,
                   sampling_p, loss_value, total_loss, modelVars, metricVars,
                   resultVars, right_ckpts>>

\* line 319
SaveRight ==
    /\ pc = "SaveRight"
    /\ right_ckpts' = Append(right_ckpts, epoch + 1)
    /\ pc' = "ResetMetrics"
    /\ UNCHANGED <<fnVars, paramVars, replicaVars, epoch, step, bucketVars, batch_no, inputs,
                   sampling_p, loss_value, total_loss, modelVars, metricVars,
                   resultVars, left_ckpts>>

\* ResetMetrics resetting the recall mean only
ResetMetrics_recall_only ==
    /\ pc = "ResetMetrics"
    /\ epoch_recall_avg' = MeanNew
    /\ epoch_positive_avg' = epoch_positive_avg
    /\ epoch' = epoch + 1
    /\ pc' = "EpochStart"
    /\ UNCHANGED <<fnVars, paramVars, replicaVars, step, bucketVars, batch_no, inputs,
                   sampling_p, loss_value, total_loss, modelVars, resultVars,
                   ckptVars>>

\* lines 322-323, then the next value of range(epochs)
ResetMetrics ==
    /\ pc = "ResetMetrics"
    /\ epoch_recall_avg' = MeanNew
    /\ epoch_positive_avg' = MeanNew
    /\ epoch' = epoch + 1
    /\ pc' = "EpochStart"
    /\ UNCHANGED <<fnVars, paramVars, replicaVars, step, bucketVars, batch_no, inputs,
                   sampling_p, loss_value, total_loss, modelVars, resultVars,
                   ckptVars>>

\* line 325: range(epochs) is exhausted, both towers are returned
Return ==
    /\ pc = "EpochStart"
    /\ epoch >= epochs
    /\ pc' = "Done"
    /\ UNCHANGED <<fnVars, paramVars, replicaVars, epoch, step, bucketVars, batch_no, inputs,
                   sampling_p, loss_value, total_loss, modelVars, metricVars,
                   resultVars, ckptVars>>

Next ==
    \/ EpochStart
    \/ BatchLoad
    \/ BatchesDone
    \/ StreamingEstimate
    \/ UniformSampling
    \/ ForwardBackward
    \/ ApplyLeft
    \/ ApplyRight
    \/ MetricUpdate
    \/ BatchEnd
    \/ EpochEnd
    \/ SaveLeft
    \/ SaveRight
    \/ ResetMetrics
    \/ Return

Spec == Init /\ [][Next]_vars

---------------------------------------------------------------------------
(* train_model and the estimator given an alpha or beta outside (0, 1],    *)
(* (0, inf): neither line 116-122 nor line 248-250 looks at the values     *)

UncheckedAlphas == {RInt(-1), RInt(0), ALPHA_DEFAULT}

UncheckedBetas == {RInt(-1), RInt(0), Rat(1, 2)}

UncheckedEpochs == {1, 2}

\* a streaming run has an alpha or a beta that is zero or negative
InitUnchecked ==
    /\ FnIdle
    /\ NoReplicas
    /\ epochs \in UncheckedEpochs
    /\ streaming \in BOOLEAN
    /\ alpha \in (IF streaming THEN UncheckedAlphas ELSE {ALPHA_DEFAULT})
    /\ beta \in (IF streaming THEN UncheckedBetas ELSE {RInt(100)})
    /\ streaming => (alpha.num <= 0 \/ beta.num <= 0)
    /\ ids_hash_bucket_size \in (IF streaming THEN 1 .. MaxBuckets ELSE {1})
    /\ dataset \in Datasets
    /\ steps \in {1, Len(dataset)} \ {0}
    /\ tensorboard_dir \in (IF streaming THEN {"logs"} ELSE {NoDir, "logs"})
    /\ TrainStart

SpecUnchecked == InitUnchecked /\ [][Next]_vars

---------------------------------------------------------------------------
(* train_model with the train step dispatched to the strategy's replicas,  *)
(* lines 235-237 and 269                                                   *)

\* line 190: the part of a batch the r-th of n replicas receives, the batch
\* being split into n runs of consecutive records whose lengths differ by
\* at most one
PerReplica(batch, r, n) ==
    LET len == Len(batch.reward)
        base == len \div n
        extra == len % n
        first == (r - 1) * base + (IF r - 1 < extra THEN r - 1 ELSE extra) + 1
        size == base + (IF r <= extra THEN 1 ELSE 0)
    IN  [ids |-> SubSeq(batch.ids, first, first + size - 1),
         reward |-> SubSeq(batch.reward, first, first + size - 1)]

\* the batches of a distributed run: one that leaves every replica more
\* than k records, and one shorter than k
DispatchBatchPool ==
    {<<1, 2, MaxReplicas * TOPK_DEFAULT + 1, "some">>,
     <<0, 1, TOPK_DEFAULT - 1, "some">>}

DispatchDatasets == UNION {[1 .. n -> DispatchBatchPool] : n \in 1 .. MaxBatches}

DispatchEpochs == {1, 2}

RECURSIVE RSum(_, _)
RSum(f, n) == IF n = 0 THEN RInt(0) ELSE RAdd(RSum(f, n - 1), f[n])

\* a streaming run reads the candidate ids of the whole batch on the
\* orchestrating thread (line 262), which a batch split over several
\* replicas does not offer: streaming runs have one replica
InitDispatch ==
    /\ FnIdle
    /\ epochs \in DispatchEpochs
    /\ streaming \in BOOLEAN
    /\ alpha = ALPHA_DEFAULT
    /\ beta = RInt(100)
    /\ ids_hash_bucket_size \in (IF streaming THEN 1 .. MaxBuckets ELSE {1})
    /\ dataset \in DispatchDatasets
    /\ steps = Len(dataset)
    /\ tensorboard_dir = NoDir
    /\ replica_pc \in {[r \in 1 .. n |-> "idle"] :
                          n \in (IF streaming THEN {1} ELSE 1 .. MaxReplicas)}
    /\ replica_loss = [r \in DOMAIN replica_pc |-> RInt(0)]
    /\ TrainStart

\* line 269, 236: strategy.run starts train_step on every replica and the
\* orchestrating thread waits for the reduced loss
Dispatch ==
    /\ pc = "ForwardBackward"
    /\ replica_pc # <<>>
    /\ replica_pc' = [r \in DOMAIN replica_pc |-> "grad"]
    /\ pc' = "Dispatched"
    /\ UNCHANGED <<fnVars, paramVars, replica_loss, epoch, step, bucketVars,
                   batch_no, inputs, sampling_p, loss_value, total_loss,
                   modelVars, metricVars, resultVars, ckptVars>>

\* ReplicaGrad reading array_b for the sampling probabilities of its records
ReplicaGrad_reading_buckets(r) ==
    /\ pc = "Dispatched"
    /\ replica_pc[r] = "grad"
    /\ \E l \in LossValues(PerReplica(inputs, r, Len(replica_pc)).reward) :
          replica_loss' = [replica_loss EXCEPT ![r] = l]
    /\ replica_pc' = [replica_pc EXCEPT ![r] = "apply_left"]
    /\ bucket_access' = bucket_access \cup {"replica"}
    /\ UNCHANGED <<fnVars, paramVars, pc, epoch, step, array_a, array_b,
                   batch_no, inputs, sampling_p, loss_value, total_loss,
                   modelVars, metricVars, resultVars, ckptVars>>

\* lines 224-225 on replica r
ReplicaGrad(r) ==
    /\ pc = "Dispatched"
    /\ replica_pc[r] = "grad"
    /\ \E l \in LossValues(PerReplica(inputs, r, Len(replica_pc)).reward) :
          replica_loss' = [replica_loss EXCEPT ![r] = l]
    /\ replica_pc' = [replica_pc EXCEPT ![r] = "apply_left"]
    /\ UNCHANGED <<fnVars, paramVars, pc, epoch, step, bucketVars, batch_no,
                   inputs, sampling_p, loss_value, total_loss, modelVars,
                   metricVars, resultVars, ckptVars>>

\* line 226 on replica r
ReplicaApplyLeft(r) ==
    /\ pc = "Dispatched"
    /\ replica_pc[r] = "apply_left"
    /\ left_model' = left_model + 1
    /\ replica_pc' = [replica_pc EXCEPT ![r] = "apply_right"]
    /\ UNCHANGED <<fnVars, paramVars, replica_loss, pc, epoch, step, bucketVars,
                   batch_no, inputs, sampling_p, loss_value, total_loss,
                   right_model, metricVars, resultVars, ckptVars>>

\* line 227 on replica r
ReplicaApplyRight(r) ==
    /\ pc = "Dispatched"
    /\ replica_pc[r] = "apply_right"
    /\ right_model' = right_model + 1
    /\ replica_pc' = [replica_pc EXCEPT ![r] = "metrics"]
    /\ UNCHANGED <<fnVars, paramVars, replica_loss, pc, epoch, step, bucketVars,
                   batch_no, inputs, sampling_p, loss_value, total_loss,
                   left_model, metricVars, resultVars, ckptVars>>

\* lines 229-232 on replica r; an exception of top_k ends the run
ReplicaMetricUpdate(r) ==
    /\ pc = "Dispatched"
    /\ replica_pc[r] = "metrics"
    /\ LET reward == PerReplica(inputs, r, Len(replica_pc)).reward
       IN  \E output \in Outputs(Len(reward)) :
              LET recall == topk_recall(output, reward, TOPK_DEFAULT)
                  positive == topk_positive(output, reward, TOPK_DEFAULT)
              IN  IF recall.raised \/ positive.raised
                  THEN /\ pc' = "Raised"
                       /\ replica_pc' = [replica_pc EXCEPT ![r] = "raised"]
                       /\ UNCHANGED metricVars
                  ELSE /\ epoch_recall_avg' =
                              MeanUpdate(epoch_recall_avg, recall.value)
                       /\ epoch_positive_avg' =
                              MeanUpdate(epoch_positive_avg, positive.value)
                       /\ replica_pc' = [replica_pc EXCEPT ![r] = "done"]
                       /\ UNCHANGED pc
    /\ UNCHANGED <<fnVars, paramVars, replica_loss, epoch, step, bucketVars,
                   batch_no, inputs, sampling_p, loss_value, total_loss,
                   modelVars, resultVars, ckptVars>>

\* line 237: every replica has returned, the losses are reduced to their mean
Reduce ==
    /\ pc = "Dispatched"
    /\ \A r \in DOMAIN replica_pc : replica_pc[r] = "done"
    /\ loss_value' = RDiv(RSum(replica_loss, Len(replica_loss)),
                          RInt(Len(replica_loss)))
    /\ replica_pc' = [r \in DOMAIN replica_pc |-> "idle"]
    /\ pc' = "BatchEnd"
    /\ UNCHANGED <<fnVars, paramVars, replica_loss, epoch, step, bucketVars,
                   batch_no, inputs, sampling_p, total_loss, modelVars,
                   metricVars, resultVars, ckptVars>>

NextDispatch ==
    \/ EpochStart
    \/ BatchLoad
    \/ BatchesDone
    \/ StreamingEstimate
    \/ UniformSampling
    \/ Dispatch
    \/ \E r \in DOMAIN replica_pc : ReplicaGrad(r)
    \/ \E r \in DOMAIN replica_pc : ReplicaApplyLeft(r)
    \/ \E r \in DOMAIN replica_pc : ReplicaApplyRight(r)
    \/ \E r \in DOMAIN replica_pc : ReplicaMetricUpdate(r)
    \/ Reduce
    \/ BatchEnd
    \/ EpochEnd
    \/ SaveLeft
    \/ SaveRight
    \/ ResetMetrics
    \/ Return

SpecDispatch == InitDispatch /\ [][NextDispatch]_vars

---------------------------------------------------------------------------
(* The module's functions called on their own                              *)

\* output scores and rewards of a batch given to the metric functions
ScoreVectors == UNION {[1 .. n -> 0 .. MaxScore] : n \in 1 .. MaxN}

RewardVectors(n) == [1 .. n -> {RInt(0), RInt(1)}]

\* the tokens of a record's label string
TokenVectors == UNION {[1 .. n -> {"0", "1"}] : n \in 4 .. MaxTokens}

IdTensors == UNION {[1 .. n -> IdValues] : n \in 1 .. MaxIdsLen}

\* train_model is not running
TrainIdle ==
    /\ epochs = 0
    /\ streaming = FALSE
    /\ alpha = ALPHA_DEFAULT
    /\ beta = RInt(100)
    /\ ids_hash_bucket_size = 1
    /\ steps = 1
    /\ dataset = <<>>
    /\ tensorboard_dir = NoDir
    /\ NoReplicas
    /\ TrainStart

\* a call of one of the functions, with its arguments, about to run
InitFn ==
    /\ TrainIdle
    /\ returned = FALSE
    /\ ret = <<>>
    /\ \/ /\ fn = "hash_simple"
          /\ args \in [ids : IdTensors, hash_bucket_size : 1 .. MaxBucketCount]
       \/ /\ fn = "parse_csv_line"
          /\ args \in [label : TokenVectors]
       \/ /\ fn \in {"topk_recall", "topk_positive"}
          /\ \E output \in ScoreVectors :
                args \in [output : {output},
                          reward : RewardVectors(Len(output)),
                          k : 1 .. MaxK]

CallHashSimple ==
    /\ fn = "hash_simple"
    /\ ~returned
    /\ ret' = hash_simple(args.ids, args.hash_bucket_size)
    /\ returned' = TRUE
    /\ UNCHANGED <<fn, args, trainVars>>

\* lines 72-80, on the tokens of the record's label string
CallParseCsvLine ==
    /\ fn = "parse_csv_line"
    /\ ~returned
    /\ ret' = weight_labels(args.label)
    /\ returned' = TRUE
    /\ UNCHANGED <<fn, args, trainVars>>

CallTopkRecall ==
    /\ fn = "topk_recall"
    /\ ~returned
    /\ ret' = topk_recall(args.output, args.reward, args.k)
    /\ returned' = TRUE
    /\ UNCHANGED <<fn, args, trainVars>>

CallTopkPositive ==
    /\ fn = "topk_positive"
    /\ ~returned
    /\ ret' = topk_positive(args.output, args.reward, args.k)
    /\ returned' = TRUE
    /\ UNCHANGED <<fn, args, trainVars>>

NextFn ==
    \/ CallHashSimple
    \/ CallParseCsvLine
    \/ CallTopkRecall
    \/ CallTopkPositive

SpecFn == InitFn /\ [][NextFn]_vars

---------------------------------------------------------------------------
(* Properties of the streaming estimator                                   *)

RPositive(x) == x.num > 0 /\ x.den > 0

\* the positions of the orchestrating thread inside the train step
TrainStepPcs == {"ForwardBackward", "ApplyLeft", "ApplyRight", "MetricUpdate"}

\* C1: in every state of a run with alpha in (0, 1] and beta > 0, every
\* bucket's array_b is strictly positive (and finite), from the allocation
\* at the epoch start through every update call of every epoch.
C1_ArrayBPositive == \A i \in DOMAIN array_b : RPositive(array_b[i])

\* a bucket that the second update call of an epoch has just touched again
C1_Witness ==
    /\ streaming
    /\ pc = "ForwardBackward"
    /\ step = 2
    /\ \E i \in DOMAIN array_b :
          /\ array_a[i] = RInt(2)
          /\ array_b[i] # beta
          /\ RPositive(array_b[i])

\* C2: every sampling_p value an update call returns is strictly positive
\* and finite, one value per record of the batch, in every batch of every
\* epoch of a streaming run.
C2_SamplingPPositive ==
    ~sampling_p.is_none =>
        /\ streaming
        /\ pc \in TrainStepPcs => Len(sampling_p.p) = Len(inputs.ids)
        /\ \A j \in DOMAIN sampling_p.p : RPositive(sampling_p.p[j])

\* the update call of the second batch of the second epoch has returned
C2_Witness ==
    /\ streaming
    /\ pc = "ForwardBackward"
    /\ epoch = 1
    /\ step = 2
    /\ ~sampling_p.is_none
    /\ Len(sampling_p.p) > TOPK_DEFAULT
    /\ \E j \in DOMAIN sampling_p.p : sampling_p.p[j] # RDiv(RInt(1), beta)

\* the bucket of the j-th candidate id of the current batch
BucketOf(j) == inputs.ids[j].lo % ids_hash_bucket_size

\* C3: one update call at step s moves every touched bucket's array_b by
\* alpha * (s - old array_a - old array_b), i.e. sets it to
\* (1-alpha)*old array_b + alpha*(s - old array_a), sets array_a to s, and
\* returns for the j-th record the inverse of the new array_b of its bucket;
\* from array_a = 0, array_b = 100 with alpha = 0.01 at step 1 the new
\* array_b is 99.01 and sampling_p is 1/99.01.
C3_UpdateRule ==
    [][(streaming /\ pc = "StreamingEstimate" /\ pc' = "ForwardBackward") =>
          /\ DOMAIN sampling_p'.p = DOMAIN inputs.ids
          /\ \A j \in DOMAIN inputs.ids :
                LET i == BucketOf(j)
                IN  /\ RSub(array_b'[i], array_b[i]) =
                          RMul(alpha, RSub(RSub(RInt(step), array_a[i]), array_b[i]))
                    /\ array_a'[i] = RInt(step)
                    /\ RMul(sampling_p'.p[j], array_b'[i]) = RInt(1)
                    /\ (/\ array_a[i] = RInt(0)
                        /\ array_b[i] = RInt(100)
                        /\ alpha = [num |-> 1, den |-> 100]
                        /\ step = 1)
                       => /\ array_b'[i] = [num |-> 9901, den |-> 100]
                          /\ sampling_p'.p[j] = [num |-> 100, den |-> 9901]]_vars

\* the example of the claim, and a call whose touched buckets differ
C3_Witness ==
    /\ pc = "ForwardBackward"
    /\ streaming
    /\ \/ /\ step = 1
          /\ alpha = [num |-> 1, den |-> 100]
          /\ array_b[0] = [num |-> 9901, den |-> 100]
          /\ sampling_p.p[1] = [num |-> 100, den |-> 9901]
       \/ /\ step = 2
          /\ sampling_p.p[1] # sampling_p.p[2]

---------------------------------------------------------------------------
(* Properties of the metric functions                                      *)

IsMetricCall == returned /\ fn \in {"topk_recall", "topk_positive"}

\* the set the k highest-scored indices form: every member scores higher
\* than every non-member, or equal with the lower index
IsTopSet(S, output) ==
    \A i \in S : \A j \in DOMAIN output \ S :
        \/ output[i] > output[j]
        \/ output[i] = output[j] /\ i < j

NonZero(reward, S) == Cardinality({i \in S : reward[i] # RInt(0)})

\* C4: for a batch whose rewards are all zero, topk_recall and topk_positive
\* return exactly 0 through the guard branch, whatever the scores and k.
C4_ZeroRewardReturnsZero ==
    (IsMetricCall /\ NonZero(args.reward, DOMAIN args.reward) = 0) =>
        /\ ~ret.raised
        /\ ret.branch = "_false"
        /\ ret.value = RInt(0)

\* C5: with at least one nonzero reward and k <= batch length, topk_recall
\* is (nonzero rewards among the k highest-scored indices) / (nonzero
\* rewards of the batch); reward [1,0,1,0] with k = 2 and ranking [2,0,1,3]
\* gives 1, and k = 1 with index 1 on top gives 0.
C5_RecallValue ==
    (/\ returned
     /\ fn = "topk_recall"
     /\ args.k <= Len(args.output)
     /\ NonZero(args.reward, DOMAIN args.reward) > 0) =>
        /\ ~ret.raised
        /\ ret.value.den > 0
        /\ \E S \in SUBSET DOMAIN args.output :
              /\ Cardinality(S) = args.k
              /\ IsTopSet(S, args.output)
              /\ ret.value.num * NonZero(args.reward, DOMAIN args.reward)
                    = NonZero(args.reward, S) * ret.value.den
        /\ (/\ args.reward = <<RInt(1), RInt(0), RInt(1), RInt(0)>>
            /\ args.output = <<1, 1, 2, 0>>
            /\ args.k = 2) => ret.value = RInt(1)
        /\ (/\ args.reward = <<RInt(1), RInt(0), RInt(1), RInt(0)>>
            /\ args.output = <<0, 2, 1, 0>>
            /\ args.k = 1) => ret.value = RInt(0)

\* a recall strictly between 0 and 1, on scores with a tie
C5_Witness ==
    /\ returned
    /\ fn = "topk_recall"
    /\ args.k = 2
    /\ args.output = <<1, 2, 1, 0>>
    /\ args.reward = <<RInt(0), RInt(1), RInt(1), RInt(0)>>
    /\ ret.value = [num |-> 1, den |-> 2]

\* C6: with at least one nonzero reward and k <= batch length,
\* topk_positive is (nonzero rewards among the k highest-scored indices) / k;
\* reward [1,0,1,0] with k = 1 and index 1 on top gives 0.
C6_PositiveValue ==
    (/\ returned
     /\ fn = "topk_positive"
     /\ args.k <= Len(args.output)
     /\ NonZero(args.reward, DOMAIN args.reward) > 0) =>
        /\ ~ret.raised
        /\ ret.value.den > 0
        /\ \E S \in SUBSET DOMAIN args.output :
              /\ Cardinality(S) = args.k
              /\ IsTopSet(S, args.output)
              /\ ret.value.num * args.k = NonZero(args.reward, S) * ret.value.den
        /\ (/\ args.reward = <<RInt(1), RInt(0), RInt(1), RInt(0)>>
            /\ args.output = <<0, 2, 1, 0>>
            /\ args.k = 1) => ret.value = RInt(0)

\* a positive rate strictly between 0 and 1, with k below the batch length
C6_Witness ==
    /\ returned
    /\ fn = "topk_positive"
    /\ args.k = 3
    /\ args.output = <<1, 2, 1, 0>>
    /\ args.reward = <<RInt(0), RInt(1), RInt(0), RInt(0)>>
    /\ ret.value = [num |-> 1, den |-> 3]

---------------------------------------------------------------------------
(* Properties of hash_simple and of the reward                             *)

\* (hi * 2^31 + lo) mod b, computed without leaving 32 bits
WideMod(x, b) == ((x.hi % b) * (((Int32Max % b) + 1) % b) + (x.lo % b)) % b

\* C7: for every non-negative integer id and positive bucket
\* count, hash_simple returns id mod bucket count, in [0, bucket count).
C7_HashIsIdModBuckets ==
    (returned /\ fn = "hash_simple") =>
        \A i \in DOMAIN args.ids :
            /\ ret[i] = WideMod(args.ids[i], args.hash_bucket_size)
            /\ ret[i] \in 0 .. (args.hash_bucket_size - 1)

LabelBit(tok) == IF tok = "1" THEN 1 ELSE 0

\* the reward as the weighted sum of the 5 labels, in tenths
RewardIsWeightedSum ==
    LET l == args.label
        tenths == 5 * LabelBit(l[1]) + 2 * LabelBit(l[2]) + 1 * LabelBit(l[3])
                    + 2 * LabelBit(l[4]) + 0 * LabelBit(l[5])
    IN  /\ ~ret.raised
        /\ ret.value.den > 0
        /\ ret.value.num * 10 = tenths * ret.value.den
        /\ l = <<"1", "1", "0", "0", "0">> => ret.value = [num |-> 7, den |-> 10]

\* C8 as stated: the reward of a record with 5 labels is
\* 0.5*click + 0.2*like + 0.1*share + 0.2*favorite + 0.0*comment; it lies in
\* [0, 0.8] for every 0/1 label vector, and [1,1,0,0,0] yields 0.7.
C8_RewardAtMostEightTenths ==
    (returned /\ fn = "parse_csv_line" /\ Len(args.label) = 5) =>
        /\ RewardIsWeightedSum
        /\ ret.value.num >= 0
        /\ ret.value.num * 10 <= 8 * ret.value.den

\* C8 as amended: the same weighted sum, which lies in [0, 1.0] for every
\* 0/1 label vector (the weights sum to 1.0), and [1,1,0,0,0] yields 0.7.
C8_RewardWeights ==
    (returned /\ fn = "parse_csv_line" /\ Len(args.label) = 5) =>
        /\ RewardIsWeightedSum
        /\ ret.value.num >= 0
        /\ ret.value.num <= ret.value.den

\* the click-and-like record of the claim, and a record whose reward is 1.0
C8_Witness ==
    /\ returned
    /\ fn = "parse_csv_line"
    /\ \/ args.label = <<"1", "1", "0", "0", "0">> /\ ret.value = [num |-> 7, den |-> 10]
       \/ args.label = <<"1", "1", "1", "1", "0">> /\ ret.value = RInt(1)

---------------------------------------------------------------------------
(* Properties of the epoch loop                                            *)

\* train_model has stopped: it returned, or an exception left it
Stopped == pc \in {"Done", "Raised"}

\* C9: with a dataset that is finite per epoch, train_model stops only in
\* Done, after exactly `epochs` epoch iterations, each of which recorded its
\* results once.
C9_RunsAllEpochs ==
    Stopped =>
        /\ pc = "Done"
        /\ epoch = epochs
        /\ Len(loss_results) = epochs

\* C10: the towers are checkpointed at the end of exactly the even 1-based
\* epochs, the left tower before the right one, both every time; a run that
\* reaches Done has saved each tower floor(epochs/2) times.
C10_CheckpointEveryTwoEpochs ==
    /\ \A i \in DOMAIN left_ckpts : left_ckpts[i] = 2 * i
    /\ \A i \in DOMAIN right_ckpts : right_ckpts[i] = 2 * i
    /\ Len(left_ckpts) = (IF pc \in {"SaveRight", "ResetMetrics"}
                          THEN (epoch + 1) \div 2 ELSE epoch \div 2)
    /\ Len(right_ckpts) = (IF pc = "ResetMetrics"
                           THEN (epoch + 1) \div 2 ELSE epoch \div 2)
    /\ pc = "SaveLeft" => (epoch + 1) % 2 = 0
    /\ pc = "Done" => /\ Len(left_ckpts) = epochs \div 2
                      /\ Len(right_ckpts) = epochs \div 2

\* a finished run of three epochs: one checkpoint of each tower, after epoch 2
C10_Witness ==
    /\ pc = "Done"
    /\ epochs = 3
    /\ left_ckpts = <<2>>
    /\ right_ckpts = <<2>>

---------------------------------------------------------------------------
(* Properties of the epoch boundary                                        *)

\* the batch loop of an epoch has not yielded a batch yet
BeforeFirstBatch == pc = "BatchLoad" /\ batch_no = 0

\* C11: in a streaming run, before the first batch of every epoch array_a is
\* all zeros, array_b is all beta and the step counter is 1, whatever the
\* epoch before did to the bucket state.
C11_FreshBucketsEachEpoch ==
    (streaming /\ BeforeFirstBatch) =>
        /\ step = 1
        /\ DOMAIN array_a = 0 .. (ids_hash_bucket_size - 1)
        /\ DOMAIN array_b = 0 .. (ids_hash_bucket_size - 1)
        /\ \A i \in DOMAIN array_a : array_a[i] = RInt(0)
        /\ \A i \in DOMAIN array_b : array_b[i] = beta

\* the start of a second epoch, after an epoch whose batches were all
\* processed and updated the bucket state
C11_Witness ==
    /\ streaming
    /\ BeforeFirstBatch
    /\ epoch = 1
    /\ Len(dataset) = 2
    /\ left_model = 2
    /\ \A i \in DOMAIN array_b : array_b[i] = beta /\ array_a[i] = RInt(0)

\* positions between the yield of a batch and its metric update
BeforeMetricPcs ==
    {"StreamingEstimate", "ForwardBackward", "ApplyLeft", "ApplyRight",
     "MetricUpdate"}

\* positions between the epoch record and the reset of the means
AfterEpochRecordPcs == {"SaveLeft", "SaveRight", "ResetMetrics"}

\* the number of batches of this epoch whose metrics are in the means
BatchesMeasured ==
    IF pc \in BeforeMetricPcs \cup {"Raised"} THEN batch_no - 1 ELSE batch_no

\* the means in every state: empty when an epoch starts, one update per
\* processed batch, and equal to the epoch record until they are reset
MeansFollowBatches ==
    /\ (pc \in {"EpochStart", "Done"} \/ BeforeFirstBatch) =>
          epoch_recall_avg = MeanNew /\ epoch_positive_avg = MeanNew
    /\ pc \notin {"EpochStart", "Done"} =>
          /\ epoch_recall_avg.count = BatchesMeasured
          /\ epoch_positive_avg.count = BatchesMeasured
    /\ pc \in AfterEpochRecordPcs =>
          /\ Len(recall_results) = epoch + 1
          /\ Len(positive_results) = epoch + 1
          /\ recall_results[epoch + 1] = MeanResult(epoch_recall_avg)
          /\ positive_results[epoch + 1] = MeanResult(epoch_positive_avg)
          /\ epoch_recall_avg.count = Len(dataset)

\* the means in every step: only the metric update of a batch adds to them,
\* and it adds that batch's recall and positive rate; only the reset after
\* the epoch record empties them
MeansStepByBatch ==
    /\ (pc = "MetricUpdate" /\ pc' = "BatchEnd") =>
          \E output \in Outputs(Len(inputs.reward)) :
              /\ epoch_recall_avg'.total =
                    RAdd(epoch_recall_avg.total,
                         topk_recall(output, inputs.reward, TOPK_DEFAULT).value)
              /\ epoch_positive_avg'.total =
                    RAdd(epoch_positive_avg.total,
                         topk_positive(output, inputs.reward, TOPK_DEFAULT).value)
    /\ pc = "ResetMetrics" => epoch_recall_avg' = MeanNew /\ epoch_positive_avg' = MeanNew
    /\ pc \notin {"MetricUpdate", "ResetMetrics"} => UNCHANGED metricVars

\* C12: the recall and positive-rate means recorded at the end of an epoch
\* aggregate exactly the per-batch values of that epoch's batches: the means
\* are empty when an epoch starts, updated once per batch, read for the
\* epoch record before they are reset, and reset at every epoch boundary.
C12_EpochMeansAggregateBatches ==
    []MeansFollowBatches /\ [][MeansStepByBatch]_vars

\* the record of a second epoch of two batches, whose recalls were 1/2 and 1
C12_Witness ==
    /\ pc = "ResetMetrics"
    /\ epoch = 1
    /\ Len(dataset) = 2
    /\ epoch_recall_avg = [total |-> [num |-> 3, den |-> 2], count |-> 2]
    /\ recall_results = <<[num |-> 3, den |-> 4], [num |-> 3, den |-> 4]>>

---------------------------------------------------------------------------
(* Properties of the dispatched train step                                 *)

\* some replica is inside train_step
ReplicaRunning == \E r \in DOMAIN replica_pc : replica_pc[r] # "idle"

\* replicas run only while the orchestrating thread waits in the dispatch,
\* and no replica is among the threads that touched the bucket state
ReplicasInsideDispatch ==
    /\ ReplicaRunning => pc \in {"Dispatched", "Raised"}
    /\ bucket_access \subseteq {"orchestrator"}

\* a step that reads or writes the bucket state is a step of the
\* orchestrating thread, taken while every replica is idle; a step of a
\* replica leaves the bucket state alone
BucketStepsBetweenDispatches ==
    /\ bucketVars' # bucketVars =>
          /\ pc \in {"EpochStart", "StreamingEstimate"}
          /\ ~ReplicaRunning
          /\ replica_pc' = replica_pc
    /\ replica_pc' # replica_pc => UNCHANGED bucketVars

\* C13: array_a and array_b are read and written only by the orchestrating
\* thread, between dispatches of the distributed train step; no replica's
\* train_step reads or writes them, so no interleaving of the replicas with
\* the orchestrating thread touches them concurrently.
C13_BucketsOrchestratorOnly ==
    []ReplicasInsideDispatch /\ [][BucketStepsBetweenDispatches]_vars

\* a replica in the middle of the train step of the second batch of a
\* streaming run, whose bucket state the orchestrating thread has updated
C13_Witness ==
    /\ streaming
    /\ pc = "Dispatched"
    /\ replica_pc = <<"apply_right">>
    /\ step = 2
    /\ bucket_access = {"orchestrator"}
    /\ \E i \in DOMAIN array_a : array_a[i] = RInt(2)

---------------------------------------------------------------------------
(* Properties of one update call                                           *)

\* the update call of the current batch is being made
UpdateCall == streaming /\ pc = "StreamingEstimate" /\ pc' = "ForwardBackward"

\* the hash indices of the current batch
BatchIndexs == hash_simple(inputs.ids, ids_hash_bucket_size)

\* the touched indices, each exactly once
OnceEach(idx) ==
    LET S == Range(idx)
    IN  CHOOSE q \in [1 .. Cardinality(S) -> S] : Range(q) = S

\* C14: when a bucket index occurs more than once among the touched indices
\* of an update call, every occurrence computes the new array_b from the
\* array_a and array_b the call received and the last write stays, so the
\* arrays after the call and every returned sampling_p of that bucket are
\* those of a call that touches the bucket exactly once.
C14_RepeatedIndexAsOnce ==
    [][(UpdateCall /\ Len(BatchIndexs) > Cardinality(Range(BatchIndexs))) =>
          LET once == OnceEach(BatchIndexs)
              est == sampling_p_estimation_single_hash(
                         array_a, array_b, once, step, alpha)
          IN  /\ array_a' = est.array_a
              /\ array_b' = est.array_b
              /\ \A j \in DOMAIN BatchIndexs : \A h \in DOMAIN once :
                    once[h] = BatchIndexs[j] =>
                        sampling_p'.p[j] = est.sampling_p[h]
              /\ \A i \in Range(BatchIndexs) :
                    array_b'[i] =
                        RAdd(RMul(RSub(RInt(1), alpha), array_b[i]),
                             RMul(alpha, RSub(RInt(step), array_a[i])))]_vars

\* the second update call of an epoch has touched bucket 0 several times
\* again, after the first had set its array_b to 99.01
C14_Witness ==
    /\ streaming
    /\ pc = "ForwardBackward"
    /\ step = 2
    /\ Len(BatchIndexs) > Cardinality(Range(BatchIndexs))
    /\ \E j \in DOMAIN BatchIndexs : \E h \in DOMAIN BatchIndexs :
          j # h /\ BatchIndexs[j] = 0 /\ BatchIndexs[h] = 0
    /\ array_b[0] = [num |-> 980299, den |-> 10000]
    /\ \A j \in DOMAIN BatchIndexs :
          BatchIndexs[j] = 0 => sampling_p.p[j] = [num |-> 10000, den |-> 980299]

\* C15: an update call leaves array_a[j] and array_b[j] as they were for
\* every bucket j that is not among the touched indices of the call, and
\* keeps the length of both arrays.
C15_UntouchedBucketsKept ==
    [][UpdateCall =>
          /\ DOMAIN array_a' = DOMAIN array_a
          /\ DOMAIN array_b' = DOMAIN array_b
          /\ \A j \in DOMAIN array_a \ Range(BatchIndexs) :
                /\ array_a'[j] = array_a[j]
                /\ array_b'[j] = array_b[j]]_vars

\* bucket 1 was touched by the first update call of the epoch and not by the
\* second, which touched bucket 0
C15_Witness ==
    /\ streaming
    /\ pc = "ForwardBackward"
    /\ step = 2
    /\ ids_hash_bucket_size = 2
    /\ Range(BatchIndexs) = {0}
    /\ array_a = [i \in 0 .. 1 |-> IF i = 0 THEN RInt(2) ELSE RInt(1)]
    /\ array_b[1] = [num |-> 9901, den |-> 100]

---------------------------------------------------------------------------
(* Properties of the batch loop                                            *)

\* batches the dataset has yielded since train_model was called
BatchesYielded ==
    epoch * Len(dataset) + (IF pc \in {"EpochStart", "Done"} THEN 0 ELSE batch_no)

\* every yielded batch has gone through the phases that lie before the
\* position of the loop: one application per tower and one metric update
PhasesDoneOncePerBatch ==
    /\ left_model = (IF pc \in {"StreamingEstimate", "ForwardBackward", "ApplyLeft"}
                     THEN BatchesYielded - 1 ELSE BatchesYielded)
    /\ right_model = (IF pc \in {"StreamingEstimate", "ForwardBackward",
                                  "ApplyLeft", "ApplyRight"}
                      THEN BatchesYielded - 1 ELSE BatchesYielded)
    /\ pc \notin {"EpochStart", "Done"} =>
          epoch_recall_avg.count = BatchesMeasured

\* the phase that follows each phase of a batch, and what the phase does to
\* the towers, the loss and the sampling state
PhasesInOrder ==
    /\ pc = "BatchLoad" => pc' \in {"StreamingEstimate", "EpochEnd"}
    /\ pc = "StreamingEstimate" =>
          /\ pc' = "ForwardBackward"
          /\ ~streaming => /\ sampling_p' = None
                           /\ array_a' = array_a /\ array_b' = array_b
          /\ UNCHANGED <<loss_value, modelVars, metricVars>>
    /\ pc = "ForwardBackward" =>
          /\ pc' = "ApplyLeft"
          /\ UNCHANGED <<modelVars, metricVars, sampling_p>>
    /\ pc = "ApplyLeft" =>
          /\ pc' = "ApplyRight"
          /\ left_model' = left_model + 1
          /\ UNCHANGED <<right_model, loss_value, metricVars, sampling_p>>
    /\ pc = "ApplyRight" =>
          /\ pc' = "MetricUpdate"
          /\ right_model' = right_model + 1
          /\ UNCHANGED <<left_model, loss_value, metricVars, sampling_p>>
    /\ pc = "MetricUpdate" =>
          /\ pc' \in {"BatchEnd", "Raised"}
          /\ pc' = "BatchEnd" => epoch_recall_avg'.count = epoch_recall_avg.count + 1
          /\ UNCHANGED <<modelVars, loss_value, sampling_p>>
    /\ pc = "BatchEnd" => pc' = "BatchLoad" /\ UNCHANGED <<modelVars, metricVars>>

\* C16: every batch goes through BatchLoad, StreamingEstimate (only when
\* streaming), ForwardBackward, the optimizer step and MetricUpdate in this
\* order, no phase skipped or repeated: the loss and the gradients of both
\* towers are computed before either application, the left tower's
\* gradients are applied before the right tower's, and the metric update
\* comes after both applications.
C16_PhasesInOrder ==
    []PhasesDoneOncePerBatch /\ [][PhasesInOrder]_vars

\* the metric update of the second batch of a second epoch is about to run
C16_Witness ==
    /\ pc = "MetricUpdate"
    /\ epoch = 1
    /\ batch_no = 2
    /\ Len(dataset) = 2
    /\ left_model = 4
    /\ right_model = 4
    /\ epoch_recall_avg.count = 1

\* the sampling_p the train step of the current batch works with: in a
\* streaming run the inverses of the array_b that the update call of this
\* batch, made at this batch's step, has left; otherwise None and no
\* bucket state at all
SamplingPOfThisBatch ==
    /\ (streaming /\ pc \in TrainStepPcs) =>
          /\ ~sampling_p.is_none
          /\ step = batch_no
          /\ DOMAIN sampling_p.p = DOMAIN inputs.ids
          /\ \A j \in DOMAIN inputs.ids :
                /\ array_a[BatchIndexs[j]] = RInt(step)
                /\ sampling_p.p[j] = RDiv(RInt(1), array_b[BatchIndexs[j]])
    /\ ~streaming =>
          /\ sampling_p = None
          /\ array_a = <<>>
          /\ array_b = <<>>
          /\ bucket_access = {}

\* what is handed to the train step is what the estimator returned for the
\* batch, and nothing replaces it while the train step runs
SamplingPFromThisUpdate ==
    /\ UpdateCall =>
          sampling_p' =
              [is_none |-> FALSE,
               p |-> sampling_p_estimation_single_hash(
                         array_a, array_b, BatchIndexs, step, alpha).sampling_p]
    /\ pc \in TrainStepPcs => UNCHANGED <<sampling_p, bucketVars>>

\* C17: in a streaming run the sampling_p passed to the train step of batch
\* n is the value the estimator update returned for batch n at step n,
\* never that of an earlier batch; in a non-streaming run the estimator is
\* never called, no bucket state is allocated or changed, and every train
\* step receives sampling_p = None.
C17_SamplingPFresh ==
    []SamplingPOfThisBatch /\ [][SamplingPFromThisUpdate]_vars

\* the train step of the second batch of an epoch, whose sampling_p differs
\* from what the first batch's update returned for the same bucket
C17_Witness ==
    /\ streaming
    /\ pc = "ApplyLeft"
    /\ step = 2
    /\ batch_no = 2
    /\ BatchIndexs[1] = 0
    /\ sampling_p.p[1] = [num |-> 10000, den |-> 980299]

---------------------------------------------------------------------------
(* Properties of runs with an alpha or beta that is zero or negative       *)

\* a finite value that is zero or negative
RNonPositive(x) == x.den > 0 /\ x.num <= 0

InvalidConfig == streaming /\ (RNonPositive(alpha) \/ RNonPositive(beta))

SomeBucketNonPositive == \E i \in DOMAIN array_b : RNonPositive(array_b[i])

\* C18 as stated: whenever alpha or beta is supplied as 0 or negative,
\* nothing rejects the configuration and a state in which array_b[i] <= 0
\* for some bucket i is reachable.  With beta <= 0 that state is the
\* allocation; with beta > 0 and alpha <= 0 an array_b entry that is <= 0
\* stays <= 0 in every later update of the epoch, and every epoch of a run
\* sees the same batches, so the state is reached if and only if a run that
\* returns still has such an entry.
C18_InvalidAlwaysBreaks ==
    (InvalidConfig /\ pc = "Done" /\ dataset # <<>>) =>
        (RNonPositive(beta) \/ SomeBucketNonPositive)

\* C18 as amended: when alpha or beta is supplied as 0 or negative, nothing
\* rejects the configuration (the only exception a run meets is top_k's on
\* a batch shorter than k); with beta <= 0 every array_b[i] is <= 0 as
\* allocated; with alpha = -1 and beta = 0.5 every bucket an update call has
\* touched has array_b <= 0; but with alpha = 0 and beta > 0 every array_b[i]
\* stays beta, so array_b > 0 is kept.
C18_InvalidBreaksUnlessAlphaZero ==
    InvalidConfig =>
        /\ pc = "Raised" => /\ pc # "EpochStart"
                            /\ batch_no >= 1
                            /\ Len(inputs.ids) < TOPK_DEFAULT
                            /\ left_model >= 1
        /\ (RNonPositive(beta) /\ BeforeFirstBatch) =>
              \A i \in DOMAIN array_b : array_b[i] = beta
        /\ (alpha = RInt(-1) /\ beta = Rat(1, 2)) =>
              \A i \in DOMAIN array_b :
                  array_a[i] # RInt(0) => RNonPositive(array_b[i])
        /\ (alpha = RInt(0) /\ ~RNonPositive(beta)) =>
              \A i \in DOMAIN array_b : array_b[i] = beta /\ RPositive(array_b[i])

\* a run with a negative alpha and a positive beta that has returned, with
\* an array_b entry below zero
C18_Witness ==
    /\ InvalidConfig
    /\ pc = "Done"
    /\ alpha = RInt(-1)
    /\ beta = Rat(1, 2)
    /\ \E i \in DOMAIN array_b : array_b[i].num < 0

---------------------------------------------------------------------------
(* Properties of the reported loss                                         *)

\* the mean of the per-batch losses accumulated in this epoch so far
MeanBatchLoss == RDiv(total_loss, RInt(batch_no))

\* C19: every loss figure reported for an epoch (the running loss of the
\* log line printed every 50 steps, the log line at the epoch's end, the
\* loss appended to the results and the one written to the summary writer)
\* is the sum of the per-batch losses accumulated so far in that epoch
\* divided by the number of batches processed so far in that epoch, the
\* accumulator starting from 0 in every epoch.
C19_LossFiguresAreBatchMeans ==
    /\ BeforeFirstBatch => total_loss = RInt(0)
    /\ (pc = "BatchLoad" /\ batch_no > 0 /\ batch_log.printed
            /\ batch_log.at = batch_no) =>
          batch_log.loss = MeanBatchLoss
    /\ (pc \in AfterEpochRecordPcs /\ batch_no > 0) =>
          /\ epoch_log.loss = MeanBatchLoss
          /\ loss_results[epoch + 1] = MeanBatchLoss
          /\ tensorboard_dir # NoDir => summary[epoch + 1].loss = MeanBatchLoss

---------------------------------------------------------------------------
(* Properties of the step counter                                          *)

\* array_a holds 0 or the step of an earlier batch of the epoch, and an
\* update call finds every entry below the current step
StampsBelowStep ==
    streaming =>
        /\ \A i \in DOMAIN array_a :
              /\ array_a[i].den = 1
              /\ array_a[i].num \in 0 .. step
        /\ pc \in {"BatchLoad", "StreamingEstimate"} =>
              \A i \in DOMAIN array_a : array_a[i].num < step
        /\ pc \in BeforeMetricPcs => step = batch_no

\* the gap an update call computes is at least 1 for every touched bucket,
\* and the step counter moves by exactly 1 per batch within an epoch
GapAtLeastOne ==
    /\ UpdateCall =>
          \A j \in DOMAIN BatchIndexs :
              LET gap == RSub(RInt(step), array_a[BatchIndexs[j]])
              IN  gap.den = 1 /\ gap.num >= 1
    /\ pc = "BatchEnd" => step' = step + 1
    /\ pc \notin {"BatchEnd", "EpochStart"} => step' = step

\* C20: in a streaming run every update call finds, for every bucket, an
\* array_a[i] that is 0 or the step of an earlier batch of the same epoch,
\* so array_a[i] < step and the inter-arrival gap is at least 1; the step
\* counter increases by exactly 1 per batch within an epoch.
C20_GapAtLeastOne ==
    []StampsBelowStep /\ [][GapAtLeastOne]_vars

\* the second update call of an epoch is about to run: bucket 0 carries the
\* step of the first batch, bucket 1 has not been touched
C20_Witness ==
    /\ streaming
    /\ pc = "StreamingEstimate"
    /\ step = 2
    /\ ids_hash_bucket_size = 2
    /\ array_a = [i \in 0 .. 1 |-> IF i = 0 THEN RInt(1) ELSE RInt(0)]
    /\ 0 \in Range(BatchIndexs)

===========================================================================
